---------------------------- MODULE Spec2Model ----------------------------
(***************************************************************************)
(* SIBILA backend (src/app.py, src/ingest.py, src/models.py): the text     *)
(* normaliser, the chunker, the metadata sanitiser, the chunk identifier,  *)
(* the /ingest handler writing to the Chroma collection and the /query     *)
(* handler assembling result records.                                      *)
(*                                                                         *)
(* A Python str is a sequence of characters; a character is a one-letter   *)
(* TLA+ string, except NUL (U+0000), which has no TLA+ literal.            *)
(***************************************************************************)
EXTENDS Integers, Sequences, FiniteSets, Bags, TLC

VARIABLES
    \* ---- /ingest against the collection (Spec) ----
    index,          \* the Chroma collection "sibila": a bag of stored entries
    reply,          \* what the last /ingest request answered
    upsert_calls,   \* the collection.upsert calls of the last request (their ids)
    sizes,          \* history: doc_id -> chunks its text gave, last request
    origin,         \* history: chunk id -> the document and position that wrote it
    \* ---- chunk_text's loop (SpecChunk) ----
    t, max_chars, overlap, start, n, chunks,
    \* ---- clean_text (SpecClean) ----
    raw, cleaned, cleaned_cli,
    \* ---- /query (SpecQuery) ----
    res, results,
    \* ---- position of the running function ----
    pc

vars == <<index, reply, upsert_calls, sizes, origin, t, max_chars, overlap,
          start, n, chunks, raw, cleaned, cleaned_cli, res, results, pc>>

ingestVars == <<index, reply, upsert_calls, sizes, origin>>
chunkVars  == <<t, max_chars, overlap, start, n, chunks>>
cleanVars  == <<raw, cleaned, cleaned_cli>>
queryVars  == <<res, results>>

-----------------------------------------------------------------------------
(* Characters *)

NUL == "NUL"
SP  == " "
NL  == "\n"
CR  == "\r"
TAB == "\t"

\* What Python's \s and str.strip() treat as whitespace, within the alphabet.
IsSpace(c) == c \in {SP, NL, CR, TAB}

Min(a, b) == IF a < b THEN a ELSE b
Max(a, b) == IF a > b THEN a ELSE b

\* The subsequence of s at the positions i with keep[i].
Pick(s, keep) ==
    LET pairs == [i \in 1..Len(s) |-> <<i, s[i]>>]
        sel   == SelectSeq(pairs, LAMBDA p : keep[p[1]])
    IN  [i \in 1..Len(sel) |-> sel[i][2]]

\* str.strip(): without its leading and trailing whitespace.
Strip(s) ==
    LET inked == {i \in 1..Len(s) : ~IsSpace(s[i])}
    IN  IF inked = {} THEN <<>>
        ELSE LET lo == CHOOSE i \in inked : \A j \in 1..(i - 1) : IsSpace(s[j])
                 hi == CHOOSE i \in inked : \A j \in (i + 1)..Len(s) : IsSpace(s[j])
             IN  SubSeq(s, lo, hi)

\* All strings over alphabet of length at most len.
StringsUpTo(alphabet, len) ==
    UNION {[1..k -> alphabet] : k \in 0..len}

-----------------------------------------------------------------------------
(* clean_text, src/app.py 47-53 *)

\* .replace("\x00", " ").replace("\u0000", " ")
ReplaceNul(s) == [i \in 1..Len(s) |-> IF s[i] = NUL THEN SP ELSE s[i]]

\* re.sub(r"[\r\t]+", " ", s): every maximal run of CR/TAB becomes one space.
SubCrTabRuns(s) ==
    LET rt(i)  == s[i] \in {CR, TAB}
        spaced == [i \in 1..Len(s) |-> IF rt(i) THEN SP ELSE s[i]]
    IN  Pick(spaced, [i \in 1..Len(s) |-> ~(rt(i) /\ i > 1 /\ rt(i - 1))])

\* re.sub(r"[\r\t]", " ", s): every CR/TAB becomes a space.
SubCrTabEach(s) == [i \in 1..Len(s) |-> IF s[i] \in {CR, TAB} THEN SP ELSE s[i]]

\* re.sub(r"\s+\n", "\n", s).  The leftmost match starts at the head of a
\* whitespace run and, \s+ being greedy, ends at the run's last newline; what
\* follows that newline in the run holds no newline, so nothing else of the
\* run matches.  So a whitespace character is removed exactly when a newline
\* follows it within its run, and the run's last newline stays.
SubSpaceBeforeNewline(s) ==
    Pick(s, [i \in 1..Len(s) |->
               ~(/\ IsSpace(s[i])
                 /\ \E j \in (i + 1)..Len(s) :
                       /\ s[j] = NL
                       /\ \A m \in i..j : IsSpace(s[m]))])

\* re.sub(r"\n{3,}", "\n\n", s): a run of 3+ newlines keeps its first two.
SubNewlineRuns(s) ==
    Pick(s, [i \in 1..Len(s) |->
               ~(s[i] = NL /\ i >= 3 /\ s[i - 1] = NL /\ s[i - 2] = NL)])

clean_text(s) ==
    Strip(SubNewlineRuns(SubSpaceBeforeNewline(SubCrTabRuns(ReplaceNul(s)))))

\* clean_text, src/ingest.py 25-30
ingest_clean_text(s) ==
    Strip(SubNewlineRuns(SubSpaceBeforeNewline(SubCrTabEach(ReplaceNul(s)))))

-----------------------------------------------------------------------------
(* chunk_text, src/app.py 55-69 *)

max_chars_default == 1500
overlap_default   == 150

\* end = min(start + max_chars, n)
ChunkEnd(s, mc, len) == Min(s + mc, len)

\* Mutant: the next window starts one character late.
NextStart_gap(end, ov) == Max(0, end - ov + 1)

\* Mutant: the next window starts one character early.
NextStart_stuck(end, ov) == Max(0, end - ov - 1)

\* start = max(0, end - overlap)
NextStart(end, ov) == Max(0, end - ov)

\* The while loop, from a cursor; text[s:e] is SubSeq(text, s + 1, e).
RECURSIVE chunk_loop(_, _, _, _, _)
chunk_loop(text, s, mc, ov, acc) ==
    IF ~(s < Len(text)) THEN acc
    ELSE LET end == ChunkEnd(s, mc, Len(text))
             out == Append(acc, SubSeq(text, s + 1, end))
         IN  IF end = Len(text) THEN out
             ELSE chunk_loop(text, NextStart(end, ov), mc, ov, out)

chunk_text(text, mc, ov) ==
    LET stripped == Strip(text)
    IN  IF stripped = <<>> THEN <<>> ELSE chunk_loop(stripped, 0, mc, ov, <<>>)

-----------------------------------------------------------------------------
(* Metadata values and meta_to_dict, src/app.py 16-20 and 71-91 *)

\* A JSON/Python value, tagged with its Python type.
StrV(x)   == [t |-> "str", v |-> x]
IntV(i)   == [t |-> "int", v |-> i]
FloatV(x) == [t |-> "float", v |-> x]
BoolV(b)  == [t |-> "bool", v |-> b]
NullV     == [t |-> "null"]
ListV(x)  == [t |-> "list", v |-> x]
DictV(d)  == [t |-> "dict", v |-> d]

\* isinstance(v, (str, int, float, bool))
IsPrimitive(v) == v.t \in {"str", "int", "float", "bool"}

EmptyDict == [k \in {} |-> NullV]

\* d.update(u)
Update(d, u) ==
    [k \in DOMAIN d \cup DOMAIN u |-> IF k \in DOMAIN u THEN u[k] ELSE d[k]]

\* meta: None, a dict, or a JurisMeta (IngestItem.meta, line 25).
MetaNone           == [kind |-> "None"]
MetaDict(d)        == [kind |-> "dict", d |-> d]
JurisMeta(f, c, i, e) ==
    [kind |-> "JurisMeta", filename |-> f, category |-> c, case_id |-> i,
     extra |-> e]

\* JurisMeta.dict() (Pydantic v1): every field, extra as a nested dict.
JurisMetaDict(m) ==
    ("filename" :> m.filename) @@ ("category" :> m.category)
        @@ ("case_id" :> m.case_id) @@ ("extra" :> DictV(m.extra))

\* Lines 73-81.  The last branch, dict(meta) of another type, cannot be
\* taken: IngestItem.meta is None, a JurisMeta or a dict.
MetaRaw(meta) ==
    IF meta.kind = "None" THEN EmptyDict
    ELSE IF meta.kind = "dict" THEN meta.d
    ELSE JurisMetaDict(meta)

\* Mutant: the inner test on None is forgotten.
KeepsValue_keepnull(v) == IsPrimitive(v) \/ v = NullV

\* Lines 85-88: the keys kept.
KeepsValue(v) == (IsPrimitive(v) \/ v = NullV) /\ v # NullV

meta_to_dict(meta) ==
    LET rawd == MetaRaw(meta)
    IN  [k \in {x \in DOMAIN rawd : KeepsValue(rawd[x])} |-> rawd[k]]

-----------------------------------------------------------------------------
(* make_id, src/app.py 93-94, and f"{i}" *)

Digit(d) == <<"0", "1", "2", "3", "4", "5", "6", "7", "8", "9">>[d + 1]

\* f"{i}" for i >= 0: the decimal digits.
RECURSIVE ToDecimal(_)
ToDecimal(i) ==
    IF i < 10 THEN <<Digit(i)>> ELSE ToDecimal(i \div 10) \o <<Digit(i % 10)>>

\* Mutant: the separator is left out of the f-string.
make_id_nosep(doc_id, suffix) == doc_id \o suffix

make_id(doc_id, suffix) == doc_id \o <<"_", "_">> \o suffix

-----------------------------------------------------------------------------
(* The requests /ingest is given *)

DocIds == {<<"a">>, <<"a", "_">>}

BlankText == <<SP, NL, TAB>>
ShortText == <<"a", NL, NL, NL, "b", SP>>
\* Longer than one window: chunks [0, 1500) and [1350, 1650).
LongText  ==
    <<>> \o [i \in 1..(max_chars_default + overlap_default) |->
                IF i % 10 = 0 THEN SP ELSE "A"]
Texts == {BlankText, ShortText, LongText}

\* A freeform map with every kind of value, and with the keys the pipeline
\* injects; a typed record with a null field and a non-empty extra bag.
FreeformMeta ==
    MetaDict(("active" :> BoolV(TRUE)) @@ ("notes" :> NullV)
             @@ ("tags" :> ListV(<<"a", "b">>)) @@ ("count" :> IntV(3))
             @@ ("weight" :> FloatV("0.5"))
             @@ ("nested" :> DictV("k" :> "v"))
             @@ ("doc_id" :> StrV(<<"z">>)) @@ ("chunk_index" :> IntV(9))
             @@ ("ordinal" :> IntV(7)))
TypedMeta ==
    JurisMeta(StrV("f.txt"), NullV, StrV("PEN-0001"), "k" :> StrV("v"))
Metas == {MetaNone, FreeformMeta, TypedMeta}

\* IngestItem, lines 22-25
Items == [doc_id : DocIds, text : Texts, meta : Metas]

\* A request: a list of items.  It names a document once (a doc_id is unique
\* within a collection), so it holds at most as many items as there are ids.
Batches ==
    {b \in UNION {[1..k -> Items] : k \in 0..Cardinality(DocIds)} :
        \A i, j \in 1..Len(b) : i # j => b[i].doc_id # b[j].doc_id}

-----------------------------------------------------------------------------
(* ingest, src/app.py 134-160 *)

\* Line 142, chunk_text(clean_text(item.text)), tabulated over Texts.
ChunkTable ==
    [x \in Texts |->
        chunk_text(clean_text(x), max_chars_default, overlap_default)]

ItemChunks(item) == ChunkTable[item.text]

\* Mutant: the caller's metadata is laid over the injected fields.
StoredMeta_callerwins(item, i) ==
    Update(("doc_id" :> StrV(item.doc_id)) @@ ("chunk_index" :> IntV(i)),
           meta_to_dict(item.meta))

\* Lines 148-154: the sanitised metadata, then the injected fields.
StoredMeta(item, i) ==
    Update(meta_to_dict(item.meta),
           ("doc_id" :> StrV(item.doc_id)) @@ ("chunk_index" :> IntV(i)))

\* Lines 141-143: the (item, i, chunk) the two loops visit, in order.
RECURSIVE Enumerate(_)
Enumerate(items) ==
    IF items = <<>> THEN <<>>
    ELSE LET item == items[Len(items)]
             cs   == ItemChunks(item)
         IN  Enumerate(SubSeq(items, 1, Len(items) - 1))
                 \o [k \in 1..Len(cs) |->
                        [item |-> item, i |-> k - 1, chunk |-> cs[k]]]

\* Lines 144-154: what one visit appends to ids, docs and metadatas.
Row(p) ==
    [id       |-> make_id(p.item.doc_id, ToDecimal(p.i)),
     document |-> p.chunk,
     metadata |-> StoredMeta(p.item, p.i)]

\* ids, docs and metadatas after the loops, as one list of rows.
IngestRows(items) ==
    LET ps == Enumerate(items) IN [k \in 1..Len(ps) |-> Row(ps[k])]

\* Mutant: the test is on the request's items, not on the chunks.
NothingToIngest_items(items, rows) == items = <<>>

\* Line 156: if not ids
NothingToIngest(items, rows) == rows = <<>>

\* Mutant: collection.add, which appends whatever the id.
UpsertOne_add(idx, row) == idx (+) SetToBag({row})

\* collection.upsert of one row: insert, or replace the entry of that id.
UpsertOne(idx, row) ==
    LET kept == {e \in DOMAIN idx : e.id # row.id}
    IN  [e \in kept |-> idx[e]] (+) SetToBag({row})

\* Line 159: collection.upsert(ids, documents, metadatas), row after row.
RECURSIVE Upsert(_, _)
Upsert(idx, rows) ==
    IF rows = <<>> THEN idx
    ELSE UpsertOne(Upsert(idx, SubSeq(rows, 1, Len(rows) - 1)), rows[Len(rows)])

\* The collection after ingest(items).
IndexAfter(idx, items) ==
    LET rows == IngestRows(items)
    IN  IF NothingToIngest(items, rows) THEN idx ELSE Upsert(idx, rows)

\* History: the document and position of the last writer of each id.
OriginAfter(rows, ps) ==
    LET new == {rows[k].id : k \in 1..Len(rows)}
        lastk(id) == CHOOSE k \in 1..Len(rows) :
                        /\ rows[k].id = id
                        /\ \A j \in (k + 1)..Len(rows) : rows[j].id # id
    IN  [id \in DOMAIN origin \cup new |->
            IF id \in new
            THEN [doc_id  |-> ps[lastk(id)].item.doc_id,
                  ordinal |-> ps[lastk(id)].i,
                  meta    |-> ps[lastk(id)].item.meta]
            ELSE origin[id]]

\* History: the chunks each document of the request chunks to.
SizesOf(items) ==
    [d \in {items[k].doc_id : k \in 1..Len(items)} |->
        Len(ItemChunks(items[CHOOSE k \in 1..Len(items) : items[k].doc_id = d]))]

ingest(items) ==
    /\ pc = "serving"
    /\ LET rows == IngestRows(items)
       IN  IF NothingToIngest(items, rows)
           THEN \* line 157: HTTP 400, nothing is sent to the collection
                /\ reply' = [status |-> 400]
                /\ upsert_calls' = <<>>
                /\ UNCHANGED <<index, origin>>
           ELSE \* lines 159-160
                /\ index' = Upsert(index, rows)
                /\ upsert_calls' = <<[k \in 1..Len(rows) |-> rows[k].id]>>
                /\ reply' = [status |-> 200, ingested_chunks |-> Len(rows),
                             docs |-> Len(items)]
                /\ origin' = OriginAfter(rows, Enumerate(items))
    /\ sizes' = SizesOf(items)
    /\ UNCHANGED <<chunkVars, cleanVars, queryVars, pc>>

ChunkIdle == /\ t = <<>> /\ max_chars = 0 /\ overlap = 0
             /\ start = 0 /\ n = 0 /\ chunks = <<>>
CleanIdle == raw = <<>> /\ cleaned = <<>> /\ cleaned_cli = <<>>
QueryIdle == res = [n_results |-> 0] /\ results = [status |-> 0]
IngestIdle ==
    /\ index = EmptyBag
    /\ reply = [status |-> 0]
    /\ upsert_calls = <<>>
    /\ sizes = EmptyDict
    /\ origin = EmptyDict

Init == IngestIdle /\ ChunkIdle /\ CleanIdle /\ QueryIdle /\ pc = "serving"

Next == \E items \in Batches : ingest(items)

Spec == Init /\ [][Next]_vars

-----------------------------------------------------------------------------
(* chunk_text step by step, src/app.py 55-69 (SpecChunk) *)

MaxTextLen == 5
MaxWindow  == 3

ChunkAlphabet == {"a", "b", SP}

\* The texts clean_text returns: the ones it leaves as they are.
NormalizedTexts ==
    {s \in StringsUpTo(ChunkAlphabet, MaxTextLen) : clean_text(s) = s}

InitChunk ==
    /\ IngestIdle /\ CleanIdle /\ QueryIdle
    /\ pc = "chunk_text"
    /\ t \in NormalizedTexts
    /\ max_chars \in 1..MaxWindow
    /\ overlap \in 0..(max_chars - 1)
    /\ start = 0 /\ n = 0 /\ chunks = <<>>

\* Lines 57-62
chunk_enter ==
    /\ pc = "chunk_text"
    /\ t' = Strip(t)
    /\ chunks' = <<>>
    /\ start' = 0
    /\ n' = Len(t')
    /\ pc' = IF t' = <<>> THEN "done" ELSE "while"
    /\ UNCHANGED <<max_chars, overlap, ingestVars, cleanVars, queryVars>>

\* Lines 63-68: the loop test and one pass of the body.
chunk_iterate ==
    /\ pc = "while"
    /\ IF start < n
       THEN LET end == ChunkEnd(start, max_chars, n)
            IN  /\ chunks' = Append(chunks, SubSeq(t, start + 1, end))
                /\ IF end = n
                   THEN pc' = "done" /\ start' = start
                   ELSE pc' = "while" /\ start' = NextStart(end, overlap)
       ELSE pc' = "done" /\ UNCHANGED <<chunks, start>>
    /\ UNCHANGED <<t, n, max_chars, overlap, ingestVars, cleanVars, queryVars>>

NextChunk == chunk_enter \/ chunk_iterate

\* A call runs to its end: nothing suspends the loop.
SpecChunk == InitChunk /\ [][NextChunk]_vars /\ WF_vars(NextChunk)

-----------------------------------------------------------------------------
(* clean_text on its own, src/app.py 47-53 and src/ingest.py 25-30 (SpecClean) *)

MaxRawLen == 5

CleanAlphabet == {"a", "b", SP, NL, TAB, NUL}

InitClean ==
    /\ IngestIdle /\ ChunkIdle /\ QueryIdle
    /\ pc = "app.clean_text"
    /\ raw \in StringsUpTo(CleanAlphabet, MaxRawLen)
    /\ cleaned = <<>> /\ cleaned_cli = <<>>

clean_app ==
    /\ pc = "app.clean_text"
    /\ cleaned' = clean_text(raw)
    /\ pc' = "ingest.clean_text"
    /\ UNCHANGED <<raw, cleaned_cli, ingestVars, chunkVars, queryVars>>

clean_cli ==
    /\ pc = "ingest.clean_text"
    /\ cleaned_cli' = ingest_clean_text(raw)
    /\ pc' = "done"
    /\ UNCHANGED <<raw, cleaned, ingestVars, chunkVars, queryVars>>

NextClean == clean_app \/ clean_cli

SpecClean == InitClean /\ [][NextClean]_vars

-----------------------------------------------------------------------------
(* query, src/app.py 219-243 (SpecQuery) *)

MaxHits == 2

\* QueryRequest, lines 27-30
TopKs   == {0, 5, 100}
Filters == {NullV, DictV(EmptyDict), DictV("category" :> StrV("penal"))}

HitText(i) == <<"h", Digit(i)>>
HitMetas   == {DictV("doc_id" :> StrV(<<"a">>)), NullV}
Distances  == {FloatV("0.25"), NullV}

\* What collection.query may answer for one query text: documents and
\* metadatas of k hits; distances of the k hits, or no such key; embeddings
\* None (not asked for), or no such key, or the k vectors of the hits.
Response(k, ms, with_distances, ds, emb) ==
    LET base == ("documents" :> ListV(<<[i \in 1..k |-> HitText(i)]>>))
                    @@ ("metadatas" :> ListV(<<ms>>))
        dist == IF with_distances THEN base @@ ("distances" :> ListV(<<ds>>))
                ELSE base
    IN  CASE emb = "absent"  -> dist
          [] emb = "None"    -> dist @@ ("embeddings" :> NullV)
          [] emb = "vectors" ->
                dist @@ ("embeddings" :> ListV(<<[i \in 1..k |-> ListV(<<>>)]>>))

Responses ==
    UNION {
      { Response(k, ms, wd, ds, emb) :
          ms \in [1..k -> HitMetas], wd \in BOOLEAN,
          ds \in [1..k -> Distances], emb \in {"absent", "None", "vectors"} }
      : k \in 0..MaxHits }

\* res.get(key, default)
Get(d, key, default) == IF key \in DOMAIN d THEN d[key] ELSE default

\* Line 225: n_results
NResults(top_k) == Max(1, Min(top_k, 20))

\* Line 222: where
Where(filters) ==
    IF filters.t = "dict" /\ DOMAIN filters.v # {} THEN filters ELSE NullV

\* Line 232: the distances of the query when there are some, or else the
\* whole embeddings value (by default a list holding one empty list).
NoHits == ListV(<<<<>>>>)

UsesDistances(r) == Get(r, "distances", NoHits).v[1] # <<>>

ScoresIsNone(r) ==
    ~UsesDistances(r) /\ "embeddings" \in DOMAIN r /\ r["embeddings"].t = "null"

Scores(r) ==
    IF UsesDistances(r) THEN r["distances"].v[1]
    ELSE LET outer == Get(r, "embeddings", NoHits).v
         IN  [i \in 1..Len(outer) |-> ListV(outer[i])]

\* Lines 235-242: one QueryChunk.
QueryChunk(text, meta, score) ==
    LET m == IF meta.t = "dict" THEN meta.v ELSE EmptyDict
    IN  [doc_id |-> IF "doc_id" \in DOMAIN m THEN m["doc_id"].v ELSE <<>>,
         text   |-> text,
         score  |-> IF score.t \in {"int", "float"} THEN score
                    ELSE FloatV("0.0"),
         meta   |-> m]

\* Lines 229-243.  zip() stops at its shortest argument, and raises
\* TypeError when one is None.
Assemble(r) ==
    LET docs   == Get(r, "documents", NoHits).v[1]
        metas  == Get(r, "metadatas", NoHits).v[1]
        scores == Scores(r)
    IN  IF ScoresIsNone(r) THEN [status |-> 500]
        ELSE LET k == Min(Len(docs), Min(Len(metas), Len(scores)))
             IN  [status  |-> 200,
                  results |-> [i \in 1..k |->
                                 QueryChunk(docs[i], metas[i], scores[i])]]

InitQuery ==
    IngestIdle /\ ChunkIdle /\ CleanIdle /\ QueryIdle /\ pc = "serving"

query(q) ==
    /\ pc = "serving"
    /\ \E r \in Responses :
          /\ Len(r["documents"].v[1]) <= NResults(q.top_k)
          /\ res' = [n_results |-> NResults(q.top_k),
                     where |-> Where(q.filters), response |-> r]
          /\ results' = Assemble(r)
    /\ UNCHANGED <<pc, ingestVars, chunkVars, cleanVars>>

NextQuery == \E q \in [top_k : TopKs, filters : Filters] : query(q)

SpecQuery == InitQuery /\ [][NextQuery]_vars

-----------------------------------------------------------------------------
(* Properties of /ingest (Spec) *)

Stored == BagToSet(index)

\* The entries whose metadata names document d.
StoredOf(d) == {e \in Stored : e.metadata["doc_id"] = StrV(d)}

\* doc_id + "__" + the decimal ordinal, for an ordinal below ten.
ChunkId(d, i) ==
    d \o <<"_", "_", <<"0", "1", "2", "3", "4", "5", "6", "7", "8", "9">>[i + 1]>>

\* The (doc_id, ordinal) pairs of the last request's chunks.
ChunkPairs == UNION {{<<d, i>> : i \in 0..(sizes[d] - 1)} : d \in DOMAIN sizes}

ScalarTypes == {"str", "int", "float", "bool"}

\* The number of chunks of a request, from its per-document counts.
RECURSIVE TotalChunks(_)
TotalChunks(sz) ==
    IF DOMAIN sz = {} THEN 0
    ELSE LET d == CHOOSE x \in DOMAIN sz : TRUE
         IN  sz[d] + TotalChunks([x \in DOMAIN sz \ {d} |-> sz[x]])

\* C1: after a successful ingest, the stored chunks of every document of the
\* request are exactly the chunks that request produced for it: none of an
\* earlier, longer version remains.
C1_ReingestReplaces ==
    reply.status = 200 =>
        \A d \in DOMAIN sizes :
            {e.id : e \in StoredOf(d)} =
                {ChunkId(d, i) : i \in 0..(sizes[d] - 1)}

\* C2: from every collection state and for every (doc_id, text, meta),
\* ingesting it twice leaves the collection that ingesting it once leaves.
C2_UpsertIdempotent ==
    \A item \in Items :
        IndexAfter(IndexAfter(index, <<item>>), <<item>>)
            = IndexAfter(index, <<item>>)

\* A two-chunk document has just been ingested into a collection that also
\* holds another document: ingesting it again is the claim's case.
C2_Witness ==
    \E item \in Items :
        /\ Len(ItemChunks(item)) = 2
        /\ reply.status = 200
        /\ sizes = SizesOf(<<item>>)
        /\ IndexAfter(index, <<item>>) = index
        /\ BagCardinality(index) > 2

\* C3: a request whose documents all chunk to nothing answers the client
\* error, sends nothing to the collection and leaves it as it was; any other
\* request sends exactly one upsert, with every chunk of the batch.
C3_EmptyBatchRejected ==
    [][LET total == TotalChunks(sizes')
       IN  /\ total = 0 =>
                /\ reply'.status = 400
                /\ upsert_calls' = <<>>
                /\ index' = index
           /\ total > 0 =>
                /\ Len(upsert_calls') = 1
                /\ Len(upsert_calls'[1]) = total]_vars

\* Two blank documents were refused while the collection held chunks.
C3_Witness ==
    /\ reply.status = 400
    /\ Cardinality(DOMAIN sizes) = 2
    /\ index # EmptyBag

\* C5, as amended: every stored chunk carries doc_id and chunk_index, the id
\* of its document and its position in it, whatever the caller supplied
\* under those keys.
C5_InjectedFields ==
    \A e \in Stored :
        /\ "doc_id" \in DOMAIN e.metadata
        /\ e.metadata["doc_id"] = StrV(origin[e.id].doc_id)
        /\ "chunk_index" \in DOMAIN e.metadata
        /\ e.metadata["chunk_index"] = IntV(origin[e.id].ordinal)

\* C5, as claimed: the position is stored under the key ordinal.
C5_OrdinalKey ==
    \A e \in Stored :
        /\ "doc_id" \in DOMAIN e.metadata
        /\ e.metadata["doc_id"] = StrV(origin[e.id].doc_id)
        /\ "ordinal" \in DOMAIN e.metadata
        /\ e.metadata["ordinal"] = IntV(origin[e.id].ordinal)

\* A second chunk is stored whose caller supplied doc_id and chunk_index.
C5_Witness ==
    \E e \in Stored :
        /\ origin[e.id].meta.kind = "dict"
        /\ {"doc_id", "chunk_index"} \subseteq DOMAIN origin[e.id].meta.d
        /\ origin[e.id].ordinal = 1

\* C7: the ids a request sends are those of its (doc_id, ordinal) pairs,
\* ordinals 0..k-1 for a document of k chunks, each doc_id + "__" + ordinal,
\* and no two pairs share an id; every stored id is the id of its writer.
C7_IdsCollisionFree ==
    /\ reply.status = 200 =>
          LET ids == upsert_calls[1]
          IN  /\ Len(ids) = Cardinality(ChunkPairs)
              /\ {ids[k] : k \in 1..Len(ids)} =
                    {ChunkId(p[1], p[2]) : p \in ChunkPairs}
              /\ \A j, k \in 1..Len(ids) : j # k => ids[j] # ids[k]
    /\ \A p, q \in ChunkPairs :
          p # q => ChunkId(p[1], p[2]) # ChunkId(q[1], q[2])
    /\ \A e \in Stored :
          e.id = ChunkId(origin[e.id].doc_id, origin[e.id].ordinal)

\* One request carried two documents and three chunks.
C7_Witness ==
    /\ reply.status = 200
    /\ Cardinality(DOMAIN sizes) = 2
    /\ Len(upsert_calls[1]) = 3

\* C8: every stored metadata value is a scalar; besides the injected fields,
\* the stored keys are exactly the caller's keys with a non-null scalar
\* value, each with that value.
C8_MetadataScalar ==
    \A e \in Stored :
        LET given  == MetaRaw(origin[e.id].meta)
            theirs == DOMAIN e.metadata \ {"doc_id", "chunk_index"}
        IN  /\ \A k \in DOMAIN e.metadata : e.metadata[k].t \in ScalarTypes
            /\ theirs = {k \in DOMAIN given \ {"doc_id", "chunk_index"} :
                            given[k].t \in ScalarTypes}
            /\ \A k \in theirs : e.metadata[k] = given[k]

\* Chunks of a freeform map (with null, list and nested values) and of a
\* typed record are both stored.
C8_Witness ==
    /\ \E e \in Stored : origin[e.id].meta.kind = "dict"
    /\ \E e \in Stored : origin[e.id].meta.kind = "JurisMeta"

-----------------------------------------------------------------------------
(* Properties of chunk_text (SpecChunk) *)

\* Where chunk i starts when each chunk starts overlap before the end of the
\* one before it.
RECURSIVE StartOf(_, _, _)
StartOf(cs, ov, i) ==
    IF i = 1 THEN 0 ELSE StartOf(cs, ov, i - 1) + Len(cs[i - 1]) - ov

\* The first chunk, then every later chunk without its first ov characters.
RECURSIVE Rebuilt(_, _)
Rebuilt(cs, ov) ==
    IF cs = <<>> THEN <<>>
    ELSE IF Len(cs) = 1 THEN cs[1]
    ELSE LET last == cs[Len(cs)]
         IN  Rebuilt(SubSeq(cs, 1, Len(cs) - 1), ov)
                 \o (IF ov < Len(last) THEN SubSeq(last, ov + 1, Len(last))
                     ELSE <<>>)

\* C4: the chunks of a normalised text cover it: each is at most max_chars
\* long and is the text from overlap before the end of the one before it
\* (from 0 for the first), the last ends where the text ends, and the first
\* followed by the others without their overlap is the text.
C4_ChunksCover ==
    pc = "done" =>
        /\ \A i \in 1..Len(chunks) :
              /\ Len(chunks[i]) <= max_chars
              /\ StartOf(chunks, overlap, i) >= 0
              /\ StartOf(chunks, overlap, i) + Len(chunks[i]) <= Len(t)
              /\ chunks[i] = SubSeq(t, StartOf(chunks, overlap, i) + 1,
                                    StartOf(chunks, overlap, i) + Len(chunks[i]))
        /\ chunks # <<>> =>
              StartOf(chunks, overlap, Len(chunks))
                  + Len(chunks[Len(chunks)]) = Len(t)
        /\ Rebuilt(chunks, overlap) = t

\* A text was cut into three or more overlapping chunks.
C4_Witness == pc = "done" /\ Len(chunks) >= 3 /\ overlap >= 1

\* C10: the cursor grows on every pass that goes on, and the loop ends,
\* having emitted a last chunk that ends where the text ends.
C10_LoopTerminates ==
    /\ [][pc = "while" /\ pc' = "while" => start' > start]_vars
    /\ <>(/\ pc = "done"
          /\ t # <<>> => chunks # <<>> /\ start + Len(chunks[Len(chunks)]) = n)

\* The loop ended after four or more passes with the widest overlap.
C10_Witness ==
    pc = "done" /\ Len(chunks) >= 4 /\ max_chars > 1 /\ overlap = max_chars - 1

-----------------------------------------------------------------------------
(* Properties of clean_text (SpecClean) *)

\* The text is ... a, three or more newlines, b ..., with one a and one b.
NewlineRunBetween(s) ==
    /\ Cardinality({i \in 1..Len(s) : s[i] = "a"}) = 1
    /\ Cardinality({i \in 1..Len(s) : s[i] = "b"}) = 1
    /\ \E i, j \in 1..Len(s) :
          /\ s[i] = "a" /\ s[j] = "b" /\ j - i - 1 >= 3
          /\ \A k \in (i + 1)..(j - 1) : s[k] = NL

\* What stands between the a and the b of s.
BetweenMarks(s) ==
    LET i == CHOOSE x \in 1..Len(s) : s[x] = "a"
        j == CHOOSE x \in 1..Len(s) : s[x] = "b"
    IN  SubSeq(s, i + 1, j - 1)

\* C9: two characters that three or more newlines separate are separated by
\* exactly two newlines in what clean_text returns.
C9_NewlinesCollapseToTwo ==
    (pc # "app.clean_text" /\ NewlineRunBetween(raw)) =>
        BetweenMarks(cleaned) = <<NL, NL>>

-----------------------------------------------------------------------------
(* Properties of /query (SpecQuery) *)

\* C6: a response of n documents and n metadatas gives n result records, in
\* the response's order, and a record whose position has no numeric distance
\* (or whose response has no distances) has score 0.0.
C6_AllHitsReturned ==
    results.status # 0 =>
        LET r    == res.response
            docs == r["documents"].v[1]
        IN  /\ results.status = 200
            /\ Len(results.results) = Len(docs)
            /\ \A i \in 1..Len(docs) :
                  /\ results.results[i].text = docs[i]
                  /\ ("distances" \notin DOMAIN r
                        \/ r["distances"].v[1][i].t # "float")
                     => results.results[i].score = FloatV("0.0")

=============================================================================
